---- MODULE Spec2Model ----
(***************************************************************************)
(* A model of reth's snapshot store: the SnapshotProvider (index, jar      *)
(* cache, writer table, typed reads) of                                    *)
(*   crates/storage/provider/src/providers/snapshot/manager.rs             *)
(* and the Snapshotter of crates/snapshot/src/snapshotter.rs.              *)
(*                                                                         *)
(* Options are sequences: <<>> is None and <<v>> is Some(v).  An inclusive *)
(* range lo..=hi is the pair <<lo, hi>>.  A row is a record [n, b]: its    *)
(* number (block number for Headers, tx number otherwise) and its block;   *)
(* the pair stands for the payload stored under that number.               *)
(***************************************************************************)
EXTENDS Integers, Sequences, FiniteSets, TLC

\* Blocks per snapshot file (500 000 in the program, scaled down here).
BLOCKS_PER_SNAPSHOT == 2

\* Blocks 0..MaxBlock exist in the database.
MaxBlock == 3

\* A block of the database holds either no transaction or this many.
TxPerBlock == 2

\* Threads sharing the provider
NumThreads == 2

Threads == 1..NumThreads

Segments == {"Headers", "Transactions", "Receipts"}

Blocks == 0..MaxBlock

FileIdx == 0..(MaxBlock \div BLOCKS_PER_SNAPSHOT)

\* The block numbers a range of a file can end at.
Ends == 0..((MaxBlock \div BLOCKS_PER_SNAPSHOT + 1) * BLOCKS_PER_SNAPSHOT - 1)

\* The tx numbers of the database, and one past them.
TxNums == 0..((MaxBlock + 1) * TxPerBlock)

None == <<>>

Some(v) == <<v>>

IsSome(o) == o /= <<>>

Unwrap(o) == o[1]

Last(s) == s[Len(s)]

RECURSIVE SumTo(_, _)
SumTo(f, n) == IF n < 0 THEN 0 ELSE f[n] + SumTo(f, n - 1)

\* find_fixed_range(BLOCKS_PER_SNAPSHOT, block): the aligned range of a block.
find_fixed_range(block) ==
    LET start == (block \div BLOCKS_PER_SNAPSHOT) * BLOCKS_PER_SNAPSHOT
    IN  <<start, start + BLOCKS_PER_SNAPSHOT - 1>>

\* The index of the file (its aligned range) that holds a block.
FileOf(block) == block \div BLOCKS_PER_SNAPSHOT

VARIABLES
    db,          \* database: block -> number of transactions of the block
    build,       \* "debug" or "release": whether debug_assert! is compiled in
    disk,        \* snapshot directory: segment -> file index -> Option file
    map,         \* jar cache: segment -> range end -> Option LoadedJar
    max_block,   \* snapshots_max_block: segment -> Option block
    tx_index,    \* snapshots_tx_index: segment -> Option (tx_end -> block range)
    writers,     \* writer table: segment -> Option SnapshotProviderRW
    contig,      \* history: every run so far that went past the check met it
    ret,         \* the last operation and its result
    calls,       \* thread -> its call in progress on the shared provider
    opened,      \* segment -> range end -> number of loads of the jar so far
    shard        \* file index -> the shard of the jar cache its key hashes to

vars == <<db, build, disk, map, max_block, tx_index, writers, contig, ret, calls, opened, shard>>

provider == <<disk, map, max_block, tx_index, writers>>

----------------------------------------------------------------------------
(* The database *)

\* block_body_indices(block).tx_num_range(): first tx number and tx count.
FirstTx(d, block) == SumTo(d, block - 1)

----------------------------------------------------------------------------
(* Files of the snapshot directory *)

\* A file is [rows, full]: its rows in order, and whether it was finalized
\* (it then covers its whole aligned range).
FileRows(dk, seg, k) == IF IsSome(dk[seg][k]) THEN Unwrap(dk[seg][k]).rows ELSE <<>>

\* The block range of file k as its header records it.
FileBlockRange(f, k) ==
    <<k * BLOCKS_PER_SNAPSHOT,
      IF f.full \/ f.rows = <<>> THEN k * BLOCKS_PER_SNAPSHOT + BLOCKS_PER_SNAPSHOT - 1
      ELSE Last(f.rows).b>>

\* The tx range of a file as its header records it: absent for Headers.
FileTxRange(seg, f) ==
    IF seg = "Headers" \/ f.rows = <<>> THEN None
    ELSE Some(<<Head(f.rows).n, Last(f.rows).n>>)

RECURSIVE IterFrom(_, _, _)
IterFrom(dk, seg, k) ==
    IF k \notin FileIdx THEN <<>>
    ELSE (IF IsSome(dk[seg][k])
          THEN <<[block_range |-> FileBlockRange(Unwrap(dk[seg][k]), k),
                  tx_range |-> FileTxRange(seg, Unwrap(dk[seg][k]))]>>
          ELSE <<>>) \o IterFrom(dk, seg, k + 1)

\* iter_snapshots(path)[segment]: the files' ranges, sorted by block range.
iter_snapshots(dk, seg) == IterFrom(dk, seg, 0)

----------------------------------------------------------------------------
(* The index *)

HighestSnapshotsOf(mb) == [seg \in Segments |-> mb[seg]]

\* SnapshotProvider::get_highest_snapshot_block
get_highest_snapshot_block(mb, seg) == mb[seg]

\* SnapshotProvider::get_highest_snapshots: the highest block of each segment.
get_highest_snapshots(mb) == HighestSnapshotsOf(mb)

\* The first key of the tx index instead of the last.
get_lowest_snapshot_tx(ti, seg) ==
    IF IsSome(ti[seg])
    THEN Some(CHOOSE k \in DOMAIN Unwrap(ti[seg]) :
                  \A j \in DOMAIN Unwrap(ti[seg]) : j >= k)
    ELSE None

\* SnapshotProvider::get_highest_snapshot_tx: the last key of the tx index.
get_highest_snapshot_tx(ti, seg) ==
    IF IsSome(ti[seg])
    THEN Some(CHOOSE k \in DOMAIN Unwrap(ti[seg]) :
                  \A j \in DOMAIN Unwrap(ti[seg]) : j <= k)
    ELSE None

\* The tx_end keys one scan of a segment inserts.
ScanKeys(ranges) ==
    {Unwrap(ranges[i].tx_range)[2] : i \in {j \in DOMAIN ranges : IsSome(ranges[j].tx_range)}}

ScanRangeOf(ranges, key) ==
    ranges[CHOOSE i \in DOMAIN ranges :
               /\ IsSome(ranges[i].tx_range)
               /\ Unwrap(ranges[i].tx_range)[2] = key
               /\ \A j \in DOMAIN ranges :
                      (IsSome(ranges[j].tx_range) /\ Unwrap(ranges[j].tx_range)[2] = key)
                          => j <= i].block_range

\* An update that drops a key it finds in the index instead of overwriting it.
UpdateTxIndexToggling(dk, ti) ==
    [seg \in Segments |->
        LET ranges == iter_snapshots(dk, seg)
            keys   == ScanKeys(ranges)
            old    == IF IsSome(ti[seg]) THEN DOMAIN Unwrap(ti[seg]) ELSE {}
        IN  IF keys \ old = {} THEN None
            ELSE Some([k \in keys \ old |-> ScanRangeOf(ranges, k)])]

\* An update that takes the first file of the scan for the highest block.
UpdateMaxBlockFromFirst(dk, mb) ==
    [seg \in Segments |->
        LET ranges == iter_snapshots(dk, seg)
        IN  IF ranges /= <<>> THEN Some(Head(ranges).block_range[2]) ELSE mb[seg]]

\* update_index, the max_block half: the end of the last file of each segment.
UpdateMaxBlock(dk, mb) ==
    [seg \in Segments |->
        LET ranges == iter_snapshots(dk, seg)
        IN  IF ranges /= <<>> THEN Some(Last(ranges).block_range[2]) ELSE mb[seg]]

\* update_index, the tx_index half: tx_end -> block range, inserted per file.
UpdateTxIndex(dk, ti) ==
    [seg \in Segments |->
        LET ranges == iter_snapshots(dk, seg)
            keys   == ScanKeys(ranges)
            old    == IF IsSome(ti[seg]) THEN DOMAIN Unwrap(ti[seg]) ELSE {}
        IN  IF keys = {} THEN ti[seg]
            ELSE Some([k \in old \cup keys |->
                          IF k \in keys THEN ScanRangeOf(ranges, k)
                          ELSE Unwrap(ti[seg])[k]])]

----------------------------------------------------------------------------
(* Writers *)

\* SnapshotProviderRW::new(segment, block): a writer on the file of `block`.
NewWriter(block) == [cur |-> FileOf(block), pending |-> <<>>]

RECURSIVE DiskRowsUpTo(_, _, _)
DiskRowsUpTo(dk, seg, k) ==
    IF k < 0 THEN <<>> ELSE DiskRowsUpTo(dk, seg, k - 1) \o FileRows(dk, seg, k)

\* The last row the writer knows of: its buffer's, or else the directory's.
WriterLast(dk, seg, w) ==
    IF w.pending /= <<>> THEN Some(Last(w.pending))
    ELSE LET rows == DiskRowsUpTo(dk, seg, w.cur)
         IN  IF rows /= <<>> THEN Some(Last(rows)) ELSE None

\* Files w.cur..k-1 finalized: the buffer flushed to the current file, and
\* every file left behind covering its whole aligned range.
Finalize(dk, seg, w, k) ==
    [dk EXCEPT ![seg] =
        [i \in FileIdx |->
            IF w.cur <= i /\ i < k
            THEN Some([rows |-> FileRows(dk, seg, i) \o
                                (IF i = w.cur THEN w.pending ELSE <<>>),
                       full |-> TRUE])
            ELSE dk[seg][i]]]

\* append_header / append_transaction / append_receipt: a row of number n of
\* block b.  Numbers must grow; a block past the file's cap finalizes the file
\* and begins the next aligned one.
AppendRow(dk, seg, w, b, n) ==
    LET last == WriterLast(dk, seg, w)
        k    == FileOf(b)
        fine == /\ k >= w.cur
                /\ IsSome(last) => (n > Unwrap(last).n /\ b >= Unwrap(last).b)
    IN  IF ~fine THEN [ok |-> FALSE, disk |-> dk, w |-> w]
        ELSE IF k > w.cur
        THEN [ok |-> TRUE, disk |-> Finalize(dk, seg, w, k),
              w |-> [cur |-> k, pending |-> <<[n |-> n, b |-> b]>>]]
        ELSE [ok |-> TRUE, disk |-> dk,
              w |-> [w EXCEPT !.pending = Append(@, [n |-> n, b |-> b])]]

\* SnapshotProviderRW::commit: the buffer flushed to the current file; nothing
\* happens when nothing was appended.
CommitWriter(dk, seg, w) ==
    IF w.pending = <<>> THEN dk
    ELSE [dk EXCEPT ![seg][w.cur] =
            Some([rows |-> FileRows(dk, seg, w.cur) \o w.pending,
                  full |-> IF IsSome(dk[seg][w.cur]) THEN Unwrap(dk[seg][w.cur]).full
                           ELSE FALSE])]

\* A writer() that always begins a new writer at `block`.
WriterOfFresh(ws, block, seg) ==
    [ws EXCEPT ![seg] = Some(NewWriter(block))]

\* SnapshotWriter::writer(block, segment): the writer of the table, created at
\* `block` only when the table has none for the segment.
WriterOf(ws, block, seg) ==
    IF IsSome(ws[seg]) THEN ws
    ELSE [ws EXCEPT ![seg] = Some(NewWriter(block))]

\* SnapshotWriter::latest_writer(segment)
LatestWriterOf(ws, mb, seg) ==
    WriterOf(ws, IF IsSome(mb[seg]) THEN Unwrap(mb[seg]) ELSE 0, seg)

\* SnapshotWriter::commit: every writer of the table commits.
CommitDisk(dk, ws) ==
    [seg \in Segments |->
        IF IsSome(ws[seg]) THEN CommitWriter(dk, seg, Unwrap(ws[seg]))[seg]
        ELSE dk[seg]]

CommitWriters(ws) ==
    [seg \in Segments |->
        IF IsSome(ws[seg]) THEN Some([Unwrap(ws[seg]) EXCEPT !.pending = <<>>])
        ELSE None]

----------------------------------------------------------------------------
(* Provider resolution and the jar cache *)

\* The comparison off by one: the highest block itself is not resolved.
get_segment_ranges_below_max(mb, seg, block) ==
    IF IsSome(mb[seg]) /\ Unwrap(mb[seg]) > block
    THEN Some(find_fixed_range(block)) ELSE None

\* SnapshotProvider::get_segment_ranges_from_block
get_segment_ranges_from_block(mb, seg, block) ==
    IF IsSome(mb[seg]) /\ Unwrap(mb[seg]) >= block
    THEN Some(find_fixed_range(block)) ELSE None

SetMax(S) == CHOOSE k \in S : \A j \in S : j <= k

\* SnapshotProvider::get_segment_ranges_from_transaction: range(..tx), then
\* next_back() twice, then the containment test.
get_segment_ranges_from_transaction(ti, seg, tx) ==
    IF ~IsSome(ti[seg]) THEN None
    ELSE LET segment_snapshots == Unwrap(ti[seg])
             range == {k \in DOMAIN segment_snapshots : k < tx}
         IN  IF range = {} THEN None
             ELSE LET tx_end   == SetMax(range)
                      rest     == range \ {tx_end}
                      tx_start == IF rest = {} THEN 0 ELSE SetMax(rest)
                  IN  IF tx_start <= tx /\ tx <= tx_end
                      THEN Some(segment_snapshots[tx_end]) ELSE None

\* NippyJar::load of segment.filename(block_range), then LoadedJar::new: the
\* rows of the file as they are now; no jar when no file has that name.
LoadJar(dk, seg, block_range) ==
    IF /\ block_range = find_fixed_range(block_range[2])
       /\ FileOf(block_range[2]) \in FileIdx
       /\ IsSome(dk[seg][FileOf(block_range[2])])
    THEN Some([rows |-> FileRows(dk, seg, FileOf(block_range[2]))])
    ELSE None

\* SnapshotProvider::get_or_create_jar_provider, one caller at a time: the
\* cached jar of key (range end, segment), or else the jar loaded and inserted.
get_or_create_jar_provider(dk, mp, seg, block_range) ==
    LET key == block_range[2]
    IN  IF IsSome(mp[seg][key])
        THEN [res |-> "ok", map |-> mp, jar |-> mp[seg][key]]
        ELSE LET jar == LoadJar(dk, seg, block_range)
             IN  IF IsSome(jar)
                 THEN [res |-> "ok", map |-> [mp EXCEPT ![seg][key] = jar], jar |-> jar]
                 ELSE [res |-> "NippyJar", map |-> mp, jar |-> None]

\* SnapshotProvider::get_segment_provider without a path, followed by the
\* ok_or_else of its caller: `missing` is the caller's error.
get_segment_provider(dk, mp, seg, block_range, missing) ==
    IF IsSome(block_range)
    THEN get_or_create_jar_provider(dk, mp, seg, Unwrap(block_range))
    ELSE [res |-> missing, map |-> mp, jar |-> None]

\* A resolution by block that looks one file too far.
get_segment_provider_from_next_file(dk, mp, mb, seg, block) ==
    get_segment_provider(dk, mp, seg,
                         get_segment_ranges_from_block(mb, seg, block + BLOCKS_PER_SNAPSHOT),
                         "MissingSnapshotBlock")

\* SnapshotProvider::get_segment_provider_from_block(segment, block, None)
get_segment_provider_from_block(dk, mp, mb, seg, block) ==
    get_segment_provider(dk, mp, seg, get_segment_ranges_from_block(mb, seg, block),
                         "MissingSnapshotBlock")

\* SnapshotProvider::get_segment_provider_from_transaction(segment, tx, None)
get_segment_provider_from_transaction(dk, mp, ti, seg, tx) ==
    get_segment_provider(dk, mp, seg, get_segment_ranges_from_transaction(ti, seg, tx),
                         "MissingSnapshotTx")

\* A cursor read of a jar by number: the row of that number, if the jar has it.
JarGet(jar, number) ==
    LET hits == {i \in DOMAIN jar.rows : jar.rows[i].n = number}
    IN  IF hits = {} THEN None ELSE Some(jar.rows[CHOOSE i \in hits : TRUE])

\* SnapshotProvider::transaction_by_id
transaction_by_id(dk, mp, ti, num) ==
    LET p == get_segment_provider_from_transaction(dk, mp, ti, "Transactions", num)
    IN  IF p.res /= "ok" THEN [res |-> p.res, map |-> p.map, val |-> <<>>]
        ELSE [res |-> "ok", map |-> p.map, val |-> JarGet(Unwrap(p.jar), num)]

\* A closure that resolves the provider of the range's first file whatever
\* the number.
get_provider_of_first_file(dk, mp, mb, ti, seg, start) ==
    IF seg = "Headers" THEN get_segment_provider_from_block(dk, mp, mb, seg, 0)
    ELSE get_segment_provider_from_transaction(dk, mp, ti, seg, 0)

\* The get_provider closure of fetch_range.
get_provider(dk, mp, mb, ti, seg, start) ==
    IF seg = "Headers" THEN get_segment_provider_from_block(dk, mp, mb, seg, start)
    ELSE get_segment_provider_from_transaction(dk, mp, ti, seg, start)

\* The loops of fetch_range from `number` on, reading through `jar`.  The
\* predicate rejects the row of number `stop` (no row when stop = -1).  A miss
\* re-resolves the provider at the same number; when the jar it gets misses
\* too, the inner loop repeats without end: the result "hang".
RECURSIVE FetchLoop(_, _, _, _, _, _, _, _, _, _)
FetchLoop(dk, mp, mb, ti, seg, number, hi, stop, jar, result) ==
    IF number >= hi THEN [res |-> "ok", map |-> mp, val |-> result, reads |-> <<>>]
    ELSE LET got == JarGet(jar, number)
             rest == IF IsSome(got)
                     THEN IF Unwrap(got).n = stop
                          THEN [res |-> "ok", map |-> mp, val |-> result, reads |-> <<>>]
                          ELSE FetchLoop(dk, mp, mb, ti, seg, number + 1, hi, stop, jar,
                                         Append(result, Unwrap(got)))
                     ELSE LET p == get_provider(dk, mp, mb, ti, seg, number)
                          IN  IF p.res /= "ok"
                              THEN [res |-> p.res, map |-> p.map, val |-> <<>>, reads |-> <<>>]
                              ELSE IF ~IsSome(JarGet(Unwrap(p.jar), number))
                              THEN [res |-> "hang", map |-> p.map, val |-> <<>>, reads |-> <<>>]
                              ELSE FetchLoop(dk, p.map, mb, ti, seg, number, hi, stop,
                                             Unwrap(p.jar), result)
         IN  [rest EXCEPT !.reads = <<number>> \o @]

\* A fetch_range that returns at once on an empty range, before it resolves
\* any provider.
fetch_range_lazy(dk, mp, mb, ti, seg, lo, hi, stop) ==
    IF lo >= hi THEN [res |-> "ok", map |-> mp, val |-> <<>>, reads |-> <<>>]
    ELSE LET p == get_provider(dk, mp, mb, ti, seg, lo)
         IN  IF p.res /= "ok" THEN [res |-> p.res, map |-> p.map, val |-> <<>>, reads |-> <<>>]
             ELSE FetchLoop(dk, p.map, mb, ti, seg, lo, hi, stop, Unwrap(p.jar), <<>>)

\* SnapshotProvider::fetch_range over the half-open range lo..hi; `reads` is
\* the sequence of numbers get_fn was called with.
fetch_range(dk, mp, mb, ti, seg, lo, hi, stop) ==
    LET p == get_provider(dk, mp, mb, ti, seg, lo)
    IN  IF p.res /= "ok" THEN [res |-> p.res, map |-> p.map, val |-> <<>>, reads |-> <<>>]
        ELSE FetchLoop(dk, p.map, mb, ti, seg, lo, hi, stop, Unwrap(p.jar), <<>>)

\* SnapshotProvider::transactions_by_tx_range
transactions_by_tx_range(dk, mp, mb, ti, lo, hi) ==
    fetch_range(dk, mp, mb, ti, "Transactions", lo, hi, -1)

----------------------------------------------------------------------------
(* The Snapshotter *)

SegmentField(seg) == CASE seg = "Headers" -> "headers"
                       [] seg = "Receipts" -> "receipts"
                       [] OTHER -> "transactions"

\* A contiguity check that forgets the transactions target.
is_contiguous_skipping_transactions(targets, snapshots) ==
    \A seg \in {"Headers", "Receipts"} :
        LET target  == targets[SegmentField(seg)]
            highest == snapshots[seg]
        IN  IsSome(target) =>
                IF IsSome(highest) THEN Unwrap(target)[1] = Unwrap(highest) + 1
                ELSE Unwrap(target)[1] = 0

\* A contiguity check that takes the highest block itself as the start.
is_contiguous_from_highest(targets, snapshots) ==
    \A seg \in Segments :
        LET target  == targets[SegmentField(seg)]
            highest == snapshots[seg]
        IN  IsSome(target) =>
                IF IsSome(highest) THEN Unwrap(target)[1] = Unwrap(highest)
                ELSE Unwrap(target)[1] = 0

\* SnapshotTargets::is_contiguous_to_highest_snapshots
is_contiguous_to_highest_snapshots(targets, snapshots) ==
    \A seg \in Segments :
        LET target  == targets[SegmentField(seg)]
            highest == snapshots[seg]
        IN  IsSome(target) =>
                IF IsSome(highest) THEN Unwrap(target)[1] = Unwrap(highest) + 1
                ELSE Unwrap(target)[1] = 0

\* One range of get_snapshot_targets: highest.unwrap_or_default()..=finalized,
\* None when the range is empty.
TargetRange(highest, finalized_block_number) ==
    LET start == IF IsSome(highest) THEN Unwrap(highest) ELSE 0
    IN  IF start <= finalized_block_number
        THEN Some(<<start, finalized_block_number>>) ELSE None

\* Snapshotter::get_snapshot_targets
get_snapshot_targets(mb, finalized_block_number) ==
    LET highest_snapshots == get_highest_snapshots(mb)
    IN  [headers      |-> TargetRange(highest_snapshots["Headers"], finalized_block_number),
         receipts     |-> TargetRange(highest_snapshots["Receipts"], finalized_block_number),
         transactions |-> TargetRange(highest_snapshots["Transactions"], finalized_block_number)]

\* The inner loop of run: the transactions of one block appended in order.
RECURSIVE AppendTxs(_, _, _, _, _)
AppendTxs(dk, w, b, n, cnt) ==
    IF cnt = 0 THEN [ok |-> TRUE, disk |-> dk, w |-> w]
    ELSE LET r == AppendRow(dk, "Transactions", w, b, n)
         IN  IF ~r.ok THEN r ELSE AppendTxs(r.disk, r.w, b, n + 1, cnt - 1)

\* The outer loop of run over the blocks b..hi of the target; reading the body
\* indices of block `fail` fails (no block fails when fail = -1).  A block
\* without body indices or without transactions appends nothing.
RECURSIVE RunBlocks(_, _, _, _, _, _)
RunBlocks(dk, w, d, b, hi, fail) ==
    IF b > hi THEN [ok |-> TRUE, disk |-> dk, w |-> w]
    ELSE IF b = fail THEN [ok |-> FALSE, disk |-> dk, w |-> w]
    ELSE LET r == AppendTxs(dk, w, b, FirstTx(d, b), d[b])
         IN  IF ~r.ok THEN r ELSE RunBlocks(r.disk, r.w, d, b + 1, hi, fail)

\* The transactions part of run: the writer obtained at the start of the
\* target, then the loop.
RunTransactions(dk, ws, d, block_range, fail) ==
    LET ws1 == WriterOf(ws, block_range[1], "Transactions")
        r   == RunBlocks(dk, Unwrap(ws1["Transactions"]), d,
                         block_range[1], block_range[2], fail)
    IN  [ok |-> r.ok, disk |-> r.disk,
         writers |-> [ws1 EXCEPT !["Transactions"] = Some(r.w)]]

RunBody(dk, ws, d, targets, fail) ==
    IF IsSome(targets.transactions)
    THEN RunTransactions(dk, ws, d, Unwrap(targets.transactions), fail)
    ELSE [ok |-> TRUE, disk |-> dk, writers |-> ws]

Ranges == {<<lo, hi>> : lo \in Blocks, hi \in Blocks} \ {r \in Blocks \X Blocks : r[1] > r[2]}

TargetSets == [headers      : {None, Some(<<0, MaxBlock>>)},
               receipts     : {None},
               transactions : {None} \cup {Some(r) : r \in Ranges}]

\* The record of a call: the operation, its segment and argument, the kind of
\* result and the value returned.
Result(op, seg, arg, res, val) ==
    [op |-> op, seg |-> seg, arg |-> arg, res |-> res, val |-> val]

\* No call is in progress: the caller holds no result.
Idle == Result("idle", "", 0, "", <<>>)

IsIdle == ret.op = "idle"

\* A check that is compiled out of every build.
debug_assert_never(b, pre) == FALSE

\* The debug_assert! of run: it fails, and run panics, only in a build with
\* debug assertions and only when the targets are not contiguous.
debug_assert_fails(b, pre) == b = "debug" /\ ~pre

\* A run that refreshes the index on its way out with an error.
RunFailedIndexing(r, targets, pre) ==
    /\ disk' = r.disk
    /\ writers' = r.writers
    /\ max_block' = UpdateMaxBlock(r.disk, max_block)
    /\ tx_index' = UpdateTxIndex(r.disk, tx_index)
    /\ ret' = Result("run", "", targets, "err", <<pre>>)

\* run returns an error through one of its `?`: what the writer did so far
\* stays with the writer and the directory, update_index is not reached.
RunFailed(r, targets, pre) ==
    /\ disk' = r.disk
    /\ writers' = r.writers
    /\ UNCHANGED <<max_block, tx_index>>
    /\ ret' = Result("run", "", targets, "err", <<pre>>)

\* Snapshotter::run(targets).  `fail` is the block whose database read fails,
\* -2 when the commit fails (nothing is flushed), -1 when nothing fails.
Run(targets, fail) ==
    /\ IsIdle
    /\ \E pre \in {is_contiguous_to_highest_snapshots(targets, get_highest_snapshots(max_block))} :
        IF debug_assert_fails(build, pre)
        THEN /\ ret' = Result("run", "", targets, "panic", <<pre>>)
             /\ UNCHANGED <<db, build, disk, map, max_block, tx_index, writers, contig, calls, opened, shard>>
        ELSE \E r \in {RunBody(disk, writers, db, targets, fail)} :
             /\ contig' = (contig /\ pre)
             /\ IF r.ok /\ fail /= -2
                THEN \E dk2 \in {CommitDisk(r.disk, r.writers)} :
                     /\ disk' = dk2
                     /\ writers' = CommitWriters(r.writers)
                     /\ max_block' = UpdateMaxBlock(dk2, max_block)
                     /\ tx_index' = UpdateTxIndex(dk2, tx_index)
                     /\ ret' = Result("run", "", targets, "ok", <<pre>>)
                ELSE RunFailed(r, targets, pre)
             /\ UNCHANGED <<db, build, map, calls, opened, shard>>

\* Snapshotter::get_snapshot_targets(finalized_block_number)
GetSnapshotTargets(finalized_block_number) ==
    /\ IsIdle
    /\ ret' = Result("get_snapshot_targets", "", finalized_block_number, "ok",
                     get_snapshot_targets(max_block, finalized_block_number))
    /\ UNCHANGED <<db, build, disk, map, max_block, tx_index, writers, contig, calls, opened, shard>>

\* A commit that also refreshes the index.
CommitThenIndex ==
    /\ IsIdle
    /\ disk' = CommitDisk(disk, writers)
    /\ writers' = CommitWriters(writers)
    /\ max_block' = UpdateMaxBlock(disk', max_block)
    /\ tx_index' = UpdateTxIndex(disk', tx_index)
    /\ ret' = Result("commit", "", 0, "ok", <<>>)
    /\ UNCHANGED <<db, build, map, contig, calls, opened, shard>>

\* SnapshotWriter::commit
Commit ==
    /\ IsIdle
    /\ disk' = CommitDisk(disk, writers)
    /\ writers' = CommitWriters(writers)
    /\ ret' = Result("commit", "", 0, "ok", <<>>)
    /\ UNCHANGED <<db, build, map, max_block, tx_index, contig, calls, opened, shard>>

\* SnapshotProvider::update_index
UpdateIndex ==
    /\ IsIdle
    /\ max_block' = UpdateMaxBlock(disk, max_block)
    /\ tx_index' = UpdateTxIndex(disk, tx_index)
    /\ ret' = Result("update_index", "", 0, "ok", <<>>)
    /\ UNCHANGED <<db, build, disk, map, writers, contig, calls, opened, shard>>

\* A call of get_segment_provider_from_transaction(segment, tx, None)
GetSegmentProviderFromTransaction(seg, tx) ==
    /\ IsIdle
    /\ \E p \in {get_segment_provider_from_transaction(disk, map, tx_index, seg, tx)} :
          /\ map' = p.map
          /\ ret' = Result("get_segment_provider_from_transaction", seg, tx, p.res, p.jar)
    /\ UNCHANGED <<db, build, disk, max_block, tx_index, writers, contig, calls, opened, shard>>

\* A call of transaction_by_id(num)
TransactionById(num) ==
    /\ IsIdle
    /\ \E r \in {transaction_by_id(disk, map, tx_index, num)} :
          /\ map' = r.map
          /\ ret' = Result("transaction_by_id", "Transactions", num, r.res, r.val)
    /\ UNCHANGED <<db, build, disk, max_block, tx_index, writers, contig, calls, opened, shard>>

\* A call of transactions_by_tx_range(lo..hi)
TransactionsByTxRange(lo, hi) ==
    /\ IsIdle
    /\ \E r \in {transactions_by_tx_range(disk, map, max_block, tx_index, lo, hi)} :
          /\ map' = r.map
          /\ ret' = Result("transactions_by_tx_range", "Transactions", <<lo, hi>>, r.res, r.val)
    /\ UNCHANGED <<db, build, disk, max_block, tx_index, writers, contig, calls, opened, shard>>

\* The call returns: its caller takes the result.
Return ==
    /\ ~IsIdle
    /\ ret' = Idle
    /\ UNCHANGED <<db, build, disk, map, max_block, tx_index, writers, contig, calls, opened, shard>>

\* No thread is inside get_or_create_jar_provider.
NoCall == [pc |-> "idle", seg |-> "", range |-> <<>>, jar |-> <<>>, res |-> "", out |-> <<>>,
           held |-> <<>>, block |-> 0, locks |-> FALSE]

NoCalls == [t \in Threads |-> NoCall]

NoLoads == [seg \in Segments |-> [e \in Ends |-> 0]]

\* Every key of the jar cache in one shard.
OneShard == [k \in FileIdx |-> 0]

EmptyMap == [seg \in Segments |-> [e \in Ends |-> None]]

EmptyDisk == [seg \in Segments |-> [k \in FileIdx |-> None]]

\* The state after SnapshotProvider::new on an empty directory.
Init ==
    /\ db \in [Blocks -> {0, TxPerBlock}]
    /\ build \in {"debug", "release"}
    /\ disk = EmptyDisk
    /\ map = EmptyMap
    /\ max_block = [seg \in Segments |-> None]
    /\ tx_index = [seg \in Segments |-> None]
    /\ writers = [seg \in Segments |-> None]
    /\ contig = TRUE
    /\ ret = Idle
    /\ calls = NoCalls
    /\ opened = NoLoads
    /\ shard = OneShard

Next ==
    \/ \E targets \in TargetSets : \E fail \in {-2, -1} \cup Blocks :
          /\ fail >= 0  => /\ IsSome(targets.transactions)
                           /\ Unwrap(targets.transactions)[1] <= fail
                           /\ fail <= Unwrap(targets.transactions)[2]
          /\ Run(targets, fail)
    \/ \E finalized \in Blocks : GetSnapshotTargets(finalized)
    \/ Commit
    \/ UpdateIndex
    \/ \E seg \in Segments : \E tx \in TxNums : GetSegmentProviderFromTransaction(seg, tx)
    \/ \E num \in TxNums : TransactionById(num)
    \/ \E lo \in TxNums : \E hi \in TxNums : lo <= hi /\ TransactionsByTxRange(lo, hi)
    \/ Return

Spec == Init /\ [][Next]_vars

----------------------------------------------------------------------------
(* The provider over the Headers segment: a caller of the writer interface
   appends headers in block order; readers resolve jars by block. *)

Hd == "Headers"

\* A read that answers Ok(None) where no provider resolves.
header_by_number_or_none(dk, mp, mb, num) ==
    LET p == get_segment_provider_from_block(dk, mp, mb, Hd, num)
    IN  IF p.res /= "ok" THEN [res |-> "ok", map |-> p.map, val |-> None]
        ELSE [res |-> "ok", map |-> p.map, val |-> JarGet(Unwrap(p.jar), num)]

\* SnapshotProvider::header_by_number
header_by_number(dk, mp, mb, num) ==
    LET p == get_segment_provider_from_block(dk, mp, mb, Hd, num)
    IN  IF p.res /= "ok" THEN [res |-> p.res, map |-> p.map, val |-> <<>>]
        ELSE [res |-> "ok", map |-> p.map, val |-> JarGet(Unwrap(p.jar), num)]

\* The block a caller that appends headers in order appends next.
NextHeader(dk, ws) ==
    LET last == WriterLast(dk, Hd, Unwrap(ws[Hd]))
    IN  IF IsSome(last) THEN Unwrap(last).n + 1 ELSE 0

\* latest_writer(Headers), then append_header of the next block.
AppendHeader ==
    /\ IsIdle
    /\ \E ws1 \in {LatestWriterOf(writers, max_block, Hd)} :
       \E b \in {NextHeader(disk, ws1)} :
          /\ b <= MaxBlock
          /\ \E r \in {AppendRow(disk, Hd, Unwrap(ws1[Hd]), b, b)} :
                /\ disk' = r.disk
                /\ writers' = [ws1 EXCEPT ![Hd] = Some(r.w)]
                /\ ret' = Result("append_header", Hd, b, IF r.ok THEN "ok" ELSE "err", <<>>)
    /\ UNCHANGED <<db, build, map, max_block, tx_index, contig, calls, opened, shard>>

\* A call of get_segment_provider_from_block(segment, block, None)
GetSegmentProviderFromBlock(seg, block) ==
    /\ IsIdle
    /\ \E p \in {get_segment_provider_from_block(disk, map, max_block, seg, block)} :
          /\ map' = p.map
          /\ ret' = Result("get_segment_provider_from_block", seg, block, p.res, p.jar)
    /\ UNCHANGED <<db, build, disk, max_block, tx_index, writers, contig, calls, opened, shard>>

\* A call of header_by_number(num)
HeaderByNumber(num) ==
    /\ IsIdle
    /\ \E r \in {header_by_number(disk, map, max_block, num)} :
          /\ map' = r.map
          /\ ret' = Result("header_by_number", Hd, num, r.res, r.val)
    /\ UNCHANGED <<db, build, disk, max_block, tx_index, writers, contig, calls, opened, shard>>

\* The operations of the wider reader interface that snapshots cannot serve.
UnsupportedOps ==
    {"chain_info", "best_block_number", "last_block_number", "block_number",
     "find_block_by_hash", "block", "pending_block", "pending_block_with_senders",
     "pending_block_and_receipts", "ommers", "block_body_indices", "block_with_senders",
     "block_range", "withdrawals_by_block", "latest_withdrawal",
     "transaction_by_hash_with_meta", "transaction_block", "transactions_by_block",
     "transactions_by_block_range"}

\* One of them that answers Ok(None) instead.
unsupported_but_one(op, x) ==
    IF op = "block_body_indices" THEN "ok" ELSE "UnsupportedProvider"

\* The body of each of these methods: Err(ProviderError::UnsupportedProvider),
\* whatever the argument.
unsupported(op, x) == "UnsupportedProvider"

\* A call of one of these operations with argument x.
Unsupported(op, x) ==
    /\ IsIdle
    /\ ret' = Result(op, "", x, unsupported(op, x), <<>>)
    /\ UNCHANGED <<db, build, disk, map, max_block, tx_index, writers, contig, calls, opened, shard>>

\* ReceiptProvider::receipts_by_block: the body is unreachable!(), which
\* panics whatever the argument.
receipts_by_block(x) == "panic"

\* A call of receipts_by_block with argument x.
ReceiptsByBlock(x) ==
    /\ IsIdle
    /\ ret' = Result("receipts_by_block", "Receipts", x, receipts_by_block(x), <<>>)
    /\ UNCHANGED <<db, build, disk, map, max_block, tx_index, writers, contig, calls, opened, shard>>

\* A snapshot file is named {segment}_{block_lo}_{block_hi}: a name is the
\* sequence of its parts.  SnapshotSegment::filename
filename(seg, block_range) == <<seg, block_range[1], block_range[2]>>

\* SnapshotSegment::parse_filename: segment and block range of a well-formed
\* name, None for any other name.
parse_filename(name) ==
    IF Len(name) = 3 /\ name[1] \in Segments
    THEN Some(<<name[1], <<name[2], name[3]>>>>) ELSE None

\* Paths a caller supplies: without a file name (as ".."), with a name that
\* is no snapshot name, and with the names of the first file of two segments.
Paths ==
    {[file_name |-> None],
     [file_name |-> Some(<<"LOCK">>)],
     [file_name |-> Some(filename(Hd, find_fixed_range(0)))],
     [file_name |-> Some(filename("Transactions", find_fixed_range(0)))]}

\* SnapshotProvider::get_segment_provider with Some(path), followed by the
\* ok_or_else of its caller: only a path without a file name gives
\* MissingSnapshotPath; a name that does not parse, or parses to another
\* segment, leaves block_range at None and so gives the caller's error.
get_segment_provider_at_path(dk, mp, seg, path, missing) ==
    IF ~IsSome(path.file_name)
    THEN [res |-> "MissingSnapshotPath", map |-> mp, jar |-> None]
    ELSE LET parsed == parse_filename(Unwrap(path.file_name))
             block_range == IF IsSome(parsed) /\ Unwrap(parsed)[1] = seg
                            THEN Some(Unwrap(parsed)[2]) ELSE None
         IN  get_segment_provider(dk, mp, seg, block_range, missing)

\* A call of get_segment_provider_from_block(segment, num, Some(path)), or of
\* get_segment_provider_from_transaction(segment, num, Some(path)).
GetSegmentProviderAtPath(by, seg, num, path) ==
    /\ IsIdle
    /\ \E p \in {get_segment_provider_at_path(disk, map, seg, path,
                    IF by = "block" THEN "MissingSnapshotBlock" ELSE "MissingSnapshotTx")} :
          /\ map' = p.map
          /\ ret' = Result(IF by = "block" THEN "get_segment_provider_from_block_at_path"
                           ELSE "get_segment_provider_from_transaction_at_path",
                           seg, <<num, path>>, p.res, p.jar)
    /\ UNCHANGED <<db, build, disk, max_block, tx_index, writers, contig, calls, opened, shard>>

\* The predicate never consulted: every header is pushed.
sealed_headers_unconditional(dk, mp, mb, ti, lo, hi, stop) ==
    fetch_range(dk, mp, mb, ti, Hd, lo, hi, -1)

\* HeaderProvider::sealed_headers_while(lo..hi, predicate): the predicate
\* rejects the header of block `stop` and accepts every other one.
sealed_headers_while(dk, mp, mb, ti, lo, hi, stop) ==
    fetch_range(dk, mp, mb, ti, Hd, lo, hi, stop)

\* HeaderProvider::headers_range(lo..hi): the predicate accepts every header.
headers_range(dk, mp, mb, ti, lo, hi) ==
    fetch_range(dk, mp, mb, ti, Hd, lo, hi, -1)

\* A call of sealed_headers_while(lo..hi, predicate)
SealedHeadersWhile(lo, hi, stop) ==
    /\ IsIdle
    /\ \E r \in {sealed_headers_while(disk, map, max_block, tx_index, lo, hi, stop)} :
          /\ map' = r.map
          /\ ret' = Result("sealed_headers_while", Hd, <<lo, hi, stop>>, r.res,
                           [items |-> r.val, reads |-> r.reads])
    /\ UNCHANGED <<db, build, disk, max_block, tx_index, writers, contig, calls, opened, shard>>

\* A call of headers_range(lo..hi)
HeadersRange(lo, hi) ==
    /\ IsIdle
    /\ \E r \in {headers_range(disk, map, max_block, tx_index, lo, hi)} :
          /\ map' = r.map
          /\ ret' = Result("headers_range", Hd, <<lo, hi>>, r.res,
                           [items |-> r.val, reads |-> r.reads])
    /\ UNCHANGED <<db, build, disk, max_block, tx_index, writers, contig, calls, opened, shard>>

\* u64::saturating_sub
saturating_sub(a, b) == IF a > b THEN a - b ELSE 0

\* The while loop of find_snapshot from `range` on.  func hits on the jar that
\* holds the row of number `hit`; `visited` lists the range ends of the jars
\* func was invoked on.
RECURSIVE FindLoop(_, _, _, _, _, _)
FindLoop(dk, mp, seg, range, hit, visited) ==
    IF ~(range[2] > 0) THEN [res |-> "ok", map |-> mp, val |-> None, visited |-> visited]
    ELSE LET p == get_or_create_jar_provider(dk, mp, seg, range)
         IN  IF p.res /= "ok"
             THEN [res |-> p.res, map |-> p.map, val |-> None, visited |-> visited]
             ELSE LET found == JarGet(Unwrap(p.jar), hit)
                  IN  IF IsSome(found)
                      THEN [res |-> "ok", map |-> p.map, val |-> found,
                            visited |-> Append(visited, range[2])]
                      ELSE FindLoop(dk, p.map, seg,
                                    <<saturating_sub(range[1], BLOCKS_PER_SNAPSHOT),
                                      saturating_sub(range[2], BLOCKS_PER_SNAPSHOT)>>,
                                    hit, Append(visited, range[2]))

\* A search that starts at the lowest aligned range.
find_snapshot_from_lowest(dk, mp, mb, seg, hit) ==
    IF IsSome(get_highest_snapshot_block(mb, seg))
    THEN FindLoop(dk, mp, seg, find_fixed_range(0), hit, <<>>)
    ELSE [res |-> "ok", map |-> mp, val |-> None, visited |-> <<>>]

\* SnapshotProvider::find_snapshot
find_snapshot(dk, mp, mb, seg, hit) ==
    IF IsSome(get_highest_snapshot_block(mb, seg))
    THEN FindLoop(dk, mp, seg,
                  find_fixed_range(Unwrap(get_highest_snapshot_block(mb, seg))), hit, <<>>)
    ELSE [res |-> "ok", map |-> mp, val |-> None, visited |-> <<>>]

\* HeaderProvider::header(block_hash): the hash of the header of block `hit`
\* (of no header when hit = -1).
header(dk, mp, mb, hit) == find_snapshot(dk, mp, mb, Hd, hit)

\* A call of header(block_hash)
Header(hit) ==
    /\ IsIdle
    /\ \E r \in {header(disk, map, max_block, hit)} :
          /\ map' = r.map
          /\ ret' = Result("header", Hd, hit, r.res, [found |-> r.val, visited |-> r.visited])
    /\ UNCHANGED <<db, build, disk, max_block, tx_index, writers, contig, calls, opened, shard>>

InitHeaders ==
    /\ db = [b \in Blocks |-> 0]
    /\ build = "debug"
    /\ disk = EmptyDisk
    /\ map = EmptyMap
    /\ max_block = [seg \in Segments |-> None]
    /\ tx_index = [seg \in Segments |-> None]
    /\ writers = [seg \in Segments |-> None]
    /\ contig = TRUE
    /\ ret = Idle
    /\ calls = NoCalls
    /\ opened = NoLoads
    /\ shard = OneShard

NextHeaders ==
    \/ AppendHeader
    \/ Commit
    \/ UpdateIndex
    \/ \E seg \in Segments : \E block \in 0..(MaxBlock + 1) :
          GetSegmentProviderFromBlock(seg, block)
    \/ \E num \in 0..(MaxBlock + 1) : HeaderByNumber(num)
    \/ \E op \in UnsupportedOps : \E x \in {0, MaxBlock} : Unsupported(op, x)
    \/ \E x \in {0, MaxBlock} : ReceiptsByBlock(x)
    \/ \E lo \in Blocks : \E hi \in lo..(MaxBlock + 1) : \E stop \in lo..(hi - 1) :
          SealedHeadersWhile(lo, hi, stop)
    \/ \E lo \in Blocks : \E hi \in lo..(MaxBlock + 1) : HeadersRange(lo, hi)
    \/ \E hit \in {-1} \cup Blocks : Header(hit)
    \/ \E by \in {"block", "tx"} : \E seg \in {Hd, "Transactions"} : \E num \in {0, MaxBlock} :
          \E path \in Paths : GetSegmentProviderAtPath(by, seg, num, path)
    \/ Return

SpecHeaders == InitHeaders /\ [][NextHeaders]_vars

----------------------------------------------------------------------------
(* get_or_create_jar_provider called by several threads on one provider: each
   statement of its body is a step, the DashMap operations are atomic. *)

\* The directory after headers 0..n-1 were appended in order and committed.
HeadersDisk(n) ==
    [EmptyDisk EXCEPT ![Hd] =
        [k \in FileIdx |->
            IF k * BLOCKS_PER_SNAPSHOT < n
            THEN Some([rows |-> [i \in 1..(IF n - k * BLOCKS_PER_SNAPSHOT < BLOCKS_PER_SNAPSHOT
                                           THEN n - k * BLOCKS_PER_SNAPSHOT
                                           ELSE BLOCKS_PER_SNAPSHOT) |->
                                    [n |-> k * BLOCKS_PER_SNAPSHOT + i - 1,
                                     b |-> k * BLOCKS_PER_SNAPSHOT + i - 1]],
                       full |-> (k + 1) * BLOCKS_PER_SNAPSHOT < n])
            ELSE None]]

\* A thread holds a Ref into the entry of the key: the provider it was
\* returned and has not dropped yet.
HoldsRef(c, seg, key) ==
    c.pc = "done" /\ c.res = "ok" /\ c.seg = seg /\ c.range[2] = key

\* A thread still holds the provider of the file it read before: fetch_range
\* evaluates get_provider(number) while `provider` is alive.
HoldsOld(c, seg, key) == c.held = Some(<<seg, key>>)

RefInto(c, seg, key) == HoldsRef(c, seg, key) \/ HoldsOld(c, seg, key)

\* Two keys of the jar cache live in the same shard.
SameShard(seg1, key1, seg2, key2) ==
    seg1 = seg2 /\ shard[FileOf(key1)] = shard[FileOf(key2)]

\* A thread enters get_or_create_jar_provider(segment, block_range).
JarCall(t, seg, block_range) ==
    /\ calls[t].pc = "idle"
    /\ calls' = [calls EXCEPT ![t] = [NoCall EXCEPT !.pc = "get", !.seg = seg,
                                                      !.range = block_range]]
    /\ UNCHANGED <<db, build, disk, map, max_block, tx_index, writers, contig, ret, opened, shard>>

\* if let Some(jar) = self.map.get(&key) { Ok(jar.into()) } else ...
JarLookup(t) ==
    /\ calls[t].pc = "get"
    /\ LET c == calls[t]
           e == map[c.seg][c.range[2]]
       IN  calls' = [calls EXCEPT ![t] =
                        IF IsSome(e) THEN [c EXCEPT !.pc = "done", !.res = "ok", !.out = e,
                                                    !.held = None]
                        ELSE [c EXCEPT !.pc = "load"]]
    /\ UNCHANGED <<db, build, disk, map, max_block, tx_index, writers, contig, ret, opened, shard>>

\* NippyJar::load(path)?? and LoadedJar::new(jar)?: a new instance, told
\* from the others of the key by the number of the load.
JarLoad(t) ==
    /\ calls[t].pc = "load"
    /\ LET c == calls[t]
           key == c.range[2]
           jar == LoadJar(disk, c.seg, c.range)
       IN  IF IsSome(jar)
           THEN /\ opened' = [opened EXCEPT ![c.seg][key] = @ + 1]
                /\ calls' = [calls EXCEPT ![t] =
                       [c EXCEPT !.pc = "insert",
                                 !.jar = Some([rows |-> Unwrap(jar).rows,
                                               load |-> opened[c.seg][key] + 1])]]
           ELSE /\ calls' = [calls EXCEPT ![t] = [c EXCEPT !.pc = "done", !.res = "NippyJar",
                                                              !.held = None]]
                /\ UNCHANGED opened
    /\ UNCHANGED <<db, build, disk, map, max_block, tx_index, writers, contig, ret, shard>>

\* self.map.insert(key, jar): waits for the write lock of the key's shard
\* while any Ref into that shard is alive, then puts the instance in,
\* replacing the one that is there.
JarInsert(t) ==
    /\ calls[t].pc = "insert"
    /\ LET c == calls[t]
       IN  /\ \A u \in Threads : \A key \in Ends :
                 RefInto(calls[u], c.seg, key) => ~SameShard(c.seg, key, c.seg, c.range[2])
           /\ map' = [map EXCEPT ![c.seg][c.range[2]] = c.jar]
           /\ calls' = [calls EXCEPT ![t] = [c EXCEPT !.pc = "reget", !.jar = None]]
    /\ UNCHANGED <<db, build, disk, max_block, tx_index, writers, contig, ret, opened, shard>>

\* Ok(self.map.get(&key).expect("qed").into())
JarReget(t) ==
    /\ calls[t].pc = "reget"
    /\ LET c == calls[t]
       IN  calls' = [calls EXCEPT ![t] =
                        [c EXCEPT !.pc = "done", !.res = "ok", !.out = map[c.seg][c.range[2]],
                                  !.held = None]]
    /\ UNCHANGED <<db, build, disk, map, max_block, tx_index, writers, contig, ret, opened, shard>>

\* fetch_range advances to the file after the one it holds: get_fn returned
\* None, and `provider = get_provider(number)?` resolves the next range
\* before the old provider is dropped by the assignment.
JarAdvance(t) ==
    /\ calls[t].pc = "done" /\ calls[t].res = "ok"
    /\ LET c == calls[t]
           number == c.range[2] + 1
       IN  /\ IsSome(max_block[c.seg]) /\ number <= Unwrap(max_block[c.seg])
           /\ calls' = [calls EXCEPT ![t] =
                  [NoCall EXCEPT !.pc = "get", !.seg = c.seg,
                                 !.range = find_fixed_range(number),
                                 !.held = Some(<<c.seg, c.range[2]>>)]]
    /\ UNCHANGED <<db, build, disk, map, max_block, tx_index, writers, contig, ret, opened, shard>>

\* The caller is done with the provider and drops it.
JarDrop(t) ==
    /\ calls[t].pc = "done"
    /\ calls' = [calls EXCEPT ![t] = NoCall]
    /\ UNCHANGED <<db, build, disk, map, max_block, tx_index, writers, contig, ret, opened, shard>>

\* SnapshotProvider::new on a directory of committed headers.
InitJars ==
    /\ db = [b \in Blocks |-> 0]
    /\ build = "debug"
    /\ \E n \in 1..(MaxBlock + 1) : disk = HeadersDisk(n)
    /\ map = EmptyMap
    /\ max_block = UpdateMaxBlock(disk, [seg \in Segments |-> None])
    /\ tx_index = UpdateTxIndex(disk, [seg \in Segments |-> None])
    /\ writers = [seg \in Segments |-> None]
    /\ contig = TRUE
    /\ ret = Idle
    /\ calls = NoCalls
    /\ opened = NoLoads
    /\ shard \in [FileIdx -> 0..1]

NextJars ==
    \/ \E t \in Threads : \E seg \in Segments : \E k \in FileIdx :
          JarCall(t, seg, find_fixed_range(k * BLOCKS_PER_SNAPSHOT))
    \/ \E t \in Threads : JarLookup(t)
    \/ \E t \in Threads : JarLoad(t)
    \/ \E t \in Threads : JarInsert(t)
    \/ \E t \in Threads : JarReget(t)
    \/ \E t \in Threads : JarAdvance(t)
    \/ \E t \in Threads : JarDrop(t)

SpecJars == InitJars /\ [][NextJars]_vars

----------------------------------------------------------------------------
(* writer, latest_writer and update_index called by several threads on one
   provider, each a sequence of steps on the shared writer table and index. *)

\* A thread holds the RefMut into the writer of the segment.
HoldsRefMut(c, seg) == c.pc = "writer_done" /\ c.seg = seg

\* A thread holds the write locks of snapshots_max_block and
\* snapshots_tx_index.
HoldsIndexLocks(c) == c.locks

\* A thread holds a SnapshotProviderRW it constructed and has not inserted.
Constructed(c, seg) == c.pc = "writer_insert" /\ c.seg = seg

\* A thread enters writer(block, segment).
WriterCall(t, block, seg) ==
    /\ calls[t].pc = "idle"
    /\ calls' = [calls EXCEPT ![t] = [NoCall EXCEPT !.pc = "writer_get_mut", !.seg = seg,
                                                      !.block = block]]
    /\ UNCHANGED <<db, build, disk, map, max_block, tx_index, writers, contig, ret, opened, shard>>

\* A thread enters latest_writer(segment): the highest block is read under the
\* read lock of snapshots_max_block.
LatestWriterCall(t, seg) ==
    /\ \A u \in Threads : ~HoldsIndexLocks(calls[u])
    /\ LET highest == get_highest_snapshot_block(max_block, seg)
       IN  WriterCall(t, IF IsSome(highest) THEN Unwrap(highest) ELSE 0, seg)

\* if let Some(writer) = self.writers.get_mut(&segment) { Ok(writer) } else ...
WriterGetMut(t) ==
    /\ calls[t].pc = "writer_get_mut"
    /\ LET c == calls[t]
       IN  /\ \A u \in Threads \ {t} : ~HoldsRefMut(calls[u], c.seg)
           /\ calls' = [calls EXCEPT ![t] =
                  IF IsSome(writers[c.seg])
                  THEN [c EXCEPT !.pc = "writer_done", !.res = "ok", !.out = writers[c.seg]]
                  ELSE [c EXCEPT !.pc = "writer_new"]]
    /\ UNCHANGED <<db, build, disk, map, max_block, tx_index, writers, contig, ret, opened, shard>>

\* SnapshotProviderRW::new(segment, block, self.clone())?
WriterNew(t) ==
    /\ calls[t].pc = "writer_new"
    /\ calls' = [calls EXCEPT ![t] = [calls[t] EXCEPT !.pc = "writer_insert",
                                                      !.jar = Some(NewWriter(calls[t].block))]]
    /\ UNCHANGED <<db, build, disk, map, max_block, tx_index, writers, contig, ret, opened, shard>>

\* self.writers.insert(segment, writer): waits while another thread holds the
\* RefMut, then puts the writer in, replacing the one that is there.
WriterInsert(t) ==
    /\ calls[t].pc = "writer_insert"
    /\ LET c == calls[t]
       IN  /\ \A u \in Threads \ {t} : ~HoldsRefMut(calls[u], c.seg)
           /\ writers' = [writers EXCEPT ![c.seg] = c.jar]
           /\ calls' = [calls EXCEPT ![t] = [c EXCEPT !.pc = "writer_reget", !.jar = None]]
    /\ UNCHANGED <<db, build, disk, map, max_block, tx_index, contig, ret, opened, shard>>

\* Ok(self.writers.get_mut(&segment).expect("qed").into())
WriterReget(t) ==
    /\ calls[t].pc = "writer_reget"
    /\ LET c == calls[t]
       IN  /\ \A u \in Threads \ {t} : ~HoldsRefMut(calls[u], c.seg)
           /\ calls' = [calls EXCEPT ![t] =
                  [c EXCEPT !.pc = "writer_done", !.res = "ok", !.out = writers[c.seg]]]
    /\ UNCHANGED <<db, build, disk, map, max_block, tx_index, writers, contig, ret, opened, shard>>

\* The caller is done with the writer and drops the RefMut.
WriterDrop(t) ==
    /\ calls[t].pc = "writer_done"
    /\ calls' = [calls EXCEPT ![t] = NoCall]
    /\ UNCHANGED <<db, build, disk, map, max_block, tx_index, writers, contig, ret, opened, shard>>

\* update_index, its first two statements: the write locks of
\* snapshots_max_block and snapshots_tx_index, waited for while another
\* thread holds them.
UpdateIndexLock(t) ==
    /\ calls[t].pc = "idle"
    /\ \A u \in Threads \ {t} : ~HoldsIndexLocks(calls[u])
    /\ calls' = [calls EXCEPT ![t] = [NoCall EXCEPT !.pc = "update_scan", !.locks = TRUE]]
    /\ UNCHANGED <<db, build, disk, map, max_block, tx_index, writers, contig, ret, opened, shard>>

\* update_index: iter_snapshots(&self.path)? reads the directory.
UpdateIndexScan(t) ==
    /\ calls[t].pc = "update_scan"
    /\ calls' = [calls EXCEPT ![t] = [calls[t] EXCEPT !.pc = "update_store", !.out = Some(disk)]]
    /\ UNCHANGED <<db, build, disk, map, max_block, tx_index, writers, contig, ret, opened, shard>>

\* update_index: the entries of the listing inserted into both maps; the
\* locks are released on return.
UpdateIndexStore(t) ==
    /\ calls[t].pc = "update_store"
    /\ max_block' = UpdateMaxBlock(Unwrap(calls[t].out), max_block)
    /\ tx_index' = UpdateTxIndex(Unwrap(calls[t].out), tx_index)
    /\ calls' = [calls EXCEPT ![t] = NoCall]
    /\ UNCHANGED <<db, build, disk, map, writers, contig, ret, opened, shard>>

\* A provider that indexed a directory of m headers; its Headers writer has
\* committed the headers up to n since.
InitWriters ==
    /\ db = [b \in Blocks |-> 0]
    /\ build = "debug"
    /\ \E m \in 0..(MaxBlock + 1) : \E n \in m..(MaxBlock + 1) :
          /\ disk = HeadersDisk(n)
          /\ max_block = UpdateMaxBlock(HeadersDisk(m), [seg \in Segments |-> None])
          /\ tx_index = UpdateTxIndex(HeadersDisk(m), [seg \in Segments |-> None])
          /\ writers = [seg \in Segments |->
                           IF seg = Hd /\ n > m
                           THEN Some([cur |-> FileOf(n - 1), pending |-> <<>>])
                           ELSE None]
    /\ map = EmptyMap
    /\ contig = TRUE
    /\ ret = Idle
    /\ calls = NoCalls
    /\ opened = NoLoads
    /\ shard = OneShard

NextWriters ==
    \/ \E t \in Threads : \E seg \in Segments : \E block \in {0, BLOCKS_PER_SNAPSHOT} :
          WriterCall(t, block, seg)
    \/ \E t \in Threads : \E seg \in Segments : LatestWriterCall(t, seg)
    \/ \E t \in Threads : WriterGetMut(t)
    \/ \E t \in Threads : WriterNew(t)
    \/ \E t \in Threads : WriterInsert(t)
    \/ \E t \in Threads : WriterReget(t)
    \/ \E t \in Threads : WriterDrop(t)
    \/ \E t \in Threads : UpdateIndexLock(t)
    \/ \E t \in Threads : UpdateIndexScan(t)
    \/ \E t \in Threads : UpdateIndexStore(t)

SpecWriters == InitWriters /\ [][NextWriters]_vars

----------------------------------------------------------------------------
(* SnapshotTargets::is_contiguous_to_highest_snapshots on its own: the targets
   and the highest snapshots are the caller's values. *)

\* The targets a caller passes: per segment none, or a range up to MaxBlock.
AnyTargets ==
    [headers      : {None} \cup {Some(<<lo, MaxBlock>>) : lo \in Blocks},
     receipts     : {None} \cup {Some(<<lo, MaxBlock>>) : lo \in Blocks},
     transactions : {None} \cup {Some(<<lo, MaxBlock>>) : lo \in Blocks}]

\* The HighestSnapshots a caller passes.
AnyHighest == [Segments -> {None} \cup {Some(b) : b \in Blocks}]

\* A call of targets.is_contiguous_to_highest_snapshots(snapshots)
IsContiguousToHighestSnapshots(targets, snapshots) ==
    /\ IsIdle
    /\ ret' = Result("is_contiguous_to_highest_snapshots", "", <<targets, snapshots>>, "ok",
                     <<is_contiguous_to_highest_snapshots(targets, snapshots)>>)
    /\ UNCHANGED <<db, build, disk, map, max_block, tx_index, writers, contig, calls, opened, shard>>

InitTargets ==
    /\ db = [b \in Blocks |-> 0]
    /\ build = "debug"
    /\ disk = EmptyDisk
    /\ map = EmptyMap
    /\ max_block = [seg \in Segments |-> None]
    /\ tx_index = [seg \in Segments |-> None]
    /\ writers = [seg \in Segments |-> None]
    /\ contig = TRUE
    /\ ret = Idle
    /\ calls = NoCalls
    /\ opened = NoLoads
    /\ shard = OneShard

NextTargets ==
    \/ /\ IsIdle
       /\ \E targets \in AnyTargets : \E snapshots \in AnyHighest :
             IsContiguousToHighestSnapshots(targets, snapshots)
    \/ Return

SpecTargets == InitTargets /\ [][NextTargets]_vars

----------------------------------------------------------------------------
(* Properties *)

Tx == "Transactions"

\* Every row the directory holds for a segment, in file order.
DiskRows(dk, seg) == DiskRowsUpTo(dk, seg, MaxBlock \div BLOCKS_PER_SNAPSHOT)

RowOf(rows, n) == {rows[i] : i \in {j \in DOMAIN rows : rows[j].n = n}}

\* Tx number n was appended, committed and indexed: a file of the directory
\* holds its row and the tx index reaches it.
Visible(n) ==
    /\ RowOf(DiskRows(disk, Tx), n) /= {}
    /\ IsSome(get_highest_snapshot_tx(tx_index, Tx))
    /\ n <= Unwrap(get_highest_snapshot_tx(tx_index, Tx))

\* The block of the database that holds tx number n.
BlockOfTx(n) == CHOOSE b \in Blocks : FirstTx(db, b) <= n /\ n < FirstTx(db, b) + db[b]

\* C1: a transaction appended through the Transactions writer and made
\* visible by commit and update_index is returned by transaction_by_id, and
\* transactions_by_tx_range over visible numbers returns exactly those
\* transactions in ascending order.
C1_RoundTrip ==
    /\ (ret.op = "transaction_by_id" /\ Visible(ret.arg))
          => /\ ret.res = "ok"
             /\ ret.val = Some([n |-> ret.arg, b |-> BlockOfTx(ret.arg)])
    /\ (ret.op = "transactions_by_tx_range" /\ ret.arg[1] < ret.arg[2]
          /\ \A n \in ret.arg[1]..(ret.arg[2] - 1) : Visible(n))
          => /\ ret.res = "ok"
             /\ ret.val = [i \in 1..(ret.arg[2] - ret.arg[1]) |->
                              [n |-> ret.arg[1] + i - 1, b |-> BlockOfTx(ret.arg[1] + i - 1)]]

\* The indexed files that cover tx: the entries tx_hi >= tx whose tx_lo (the
\* key before, plus one, or 0) is <= tx.
Covering(ti, seg, tx) ==
    IF ~IsSome(ti[seg]) THEN {}
    ELSE LET f == Unwrap(ti[seg])
         IN  {k \in DOMAIN f :
                 /\ k >= tx
                 /\ \A j \in DOMAIN f : j < k => j < tx}

\* C2: get_segment_provider_from_transaction resolves every tx inside the tx
\* range of an indexed file to that file, and fails with MissingSnapshotTx
\* only when no indexed file covers tx.
C2_ResolvesCoveredTx ==
    ret.op = "get_segment_provider_from_transaction"
        => (ret.res = "MissingSnapshotTx" <=> Covering(tx_index, ret.seg, ret.arg) = {})

\* The block ranges of a segment's files follow each other from block 0.
ContiguousRanges(rs) ==
    /\ rs /= <<>> => rs[1].block_range[1] = 0
    /\ \A i \in DOMAIN rs : rs[i].block_range[1] <= rs[i].block_range[2]
    /\ \A i \in DOMAIN rs : i < Len(rs) => rs[i + 1].block_range[1] = rs[i].block_range[2] + 1

\* No row is written twice: numbers grow strictly, blocks never go back, and
\* every row lies in the file of its block.
RowsOnce(dk, seg) ==
    LET rows == DiskRows(dk, seg)
    IN  /\ \A i \in DOMAIN rows : i < Len(rows) =>
               rows[i].n < rows[i + 1].n /\ rows[i].b <= rows[i + 1].b
        /\ \A k \in FileIdx : \A i \in DOMAIN FileRows(dk, seg, k) :
               FileOf(FileRows(dk, seg, k)[i].b) = k

\* C5: after any sequence of runs whose contiguity precondition held, the
\* block ranges on disk of each segment are contiguous from block 0, without
\* gap or overlap, and no block is written twice.
C5_Contiguity ==
    contig => \A seg \in Segments :
                  ContiguousRanges(iter_snapshots(disk, seg)) /\ RowsOnce(disk, seg)

C5_Witness ==
    /\ contig
    /\ ret.op = "run" /\ ret.res = "ok"
    /\ Len(iter_snapshots(disk, Tx)) = 2
    /\ \E k \in FileIdx : IsSome(disk[Tx][k]) /\ ~Unwrap(disk[Tx][k]).full
                          /\ Unwrap(disk[Tx][k]).rows /= <<>>

\* The range the specification gives for a segment: highest + 1 ..= finalized,
\* 0 ..= finalized without a highest snapshot, None when empty.
ExpectedTarget(highest, finalized) ==
    LET start == IF IsSome(highest) THEN Unwrap(highest) + 1 ELSE 0
    IN  IF start <= finalized THEN Some(<<start, finalized>>) ELSE None

\* C6: get_snapshot_targets returns highest + 1 ..= finalized for a segment
\* with a highest snapshot, 0 ..= finalized for one without, and None when
\* that range is empty.
C6_TargetsFromHighest ==
    ret.op = "get_snapshot_targets"
        => \A seg \in Segments :
               ret.val[SegmentField(seg)] = ExpectedTarget(max_block[seg], ret.arg)

DiskMax(dk, seg) ==
    LET rs == iter_snapshots(dk, seg)
    IN  IF rs = <<>> THEN None ELSE Some(Last(rs).block_range[2])

JarOfFile(jar, dk, seg, k) ==
    /\ Len(jar.rows) <= Len(FileRows(dk, seg, k))
    /\ jar.rows = SubSeq(FileRows(dk, seg, k), 1, Len(jar.rows))

\* C3: get_segment_provider_from_block resolves to the jar of the aligned
\* range of the block exactly when max_block[segment] is present and >= block;
\* otherwise it fails with MissingSnapshotBlock and leaves the jar cache alone.
C3_ResolvesByBlock ==
    [][ret'.op = "get_segment_provider_from_block" =>
          LET seg == ret'.seg
              block == ret'.arg
          IN  IF IsSome(max_block[seg]) /\ Unwrap(max_block[seg]) >= block
              THEN /\ ret'.res = "ok"
                   /\ map'[seg][find_fixed_range(block)[2]] = ret'.val
                   /\ JarOfFile(Unwrap(ret'.val), disk, seg, FileOf(block))
                   /\ \A s \in Segments : \A e \in Ends :
                          (s /= seg \/ e /= find_fixed_range(block)[2]) => map'[s][e] = map[s][e]
              ELSE ret'.res = "MissingSnapshotBlock" /\ map' = map]_vars

C3_Witness ==
    /\ ret.op = "get_segment_provider_from_block" /\ ret.res = "ok"
    /\ ret.seg = Hd
    /\ ret.arg = BLOCKS_PER_SNAPSHOT
    /\ max_block[Hd] = Some(BLOCKS_PER_SNAPSHOT)

\* C8: after commit and update_index every row of every block <= max_block is
\* readable through the provider, also through a jar cached before the commit.
C8_NoStaleJar ==
    (ret.op = "header_by_number" /\ IsSome(max_block[Hd]) /\ ret.arg <= Unwrap(max_block[Hd]))
        => ret.res = "ok" /\ ret.val = Some([n |-> ret.arg, b |-> ret.arg])

\* C10: every unsupported operation returns Err(UnsupportedProvider) for every
\* input in every state, and changes nothing.
C10_Unsupported ==
    [][ret'.op \in UnsupportedOps =>
          /\ ret'.res = "UnsupportedProvider"
          /\ UNCHANGED <<disk, map, max_block, tx_index, writers>>]_vars

C10_Witness ==
    /\ ret.op = "block_body_indices" /\ ret.res = "UnsupportedProvider"
    /\ IsSome(max_block[Hd])
    /\ IsSome(map[Hd][BLOCKS_PER_SNAPSHOT - 1])
    /\ IsSome(writers[Hd]) /\ Unwrap(writers[Hd]).pending /= <<>>

\* C4: under any interleaving of concurrent get_or_create_jar_provider calls
\* for one key the jar is opened exactly once, all callers end up with the
\* same LoadedJar instance, and an entry once inserted is never replaced or
\* removed.
C4_OpenedOnce ==
    [][\A seg \in Segments : \A e \in Ends :
          /\ opened'[seg][e] <= 1
          /\ IsSome(map[seg][e]) => map'[seg][e] = map[seg][e]
          /\ \A t, u \in Threads :
                (HoldsRef(calls'[t], seg, e) /\ HoldsRef(calls'[u], seg, e))
                    => calls'[t].out = calls'[u].out]_vars

\* C11: receipts_by_block returns Err(UnsupportedProvider) for every input and
\* never aborts the caller.
C11_ReceiptsByBlockUnsupported ==
    ret.op = "receipts_by_block" => ret.res = "UnsupportedProvider"

\* The name of a supplied path does not parse, or parses to another segment.
BadPath(seg, path) ==
    /\ IsSome(path.file_name)
    /\ LET parsed == parse_filename(Unwrap(path.file_name))
       IN  ~IsSome(parsed) \/ Unwrap(parsed)[1] /= seg

\* C12: a call with a path whose file name does not parse, or parses to a
\* segment other than the requested one, fails with MissingSnapshotPath.
C12_BadPathIsMissingPath ==
    (/\ ret.op \in {"get_segment_provider_from_block_at_path",
                    "get_segment_provider_from_transaction_at_path"}
     /\ BadPath(ret.seg, ret.arg[2]))
        => ret.res = "MissingSnapshotPath"

\* The state right after an update_index that succeeded: a call of its own,
\* or the one that ends a successful run.
AfterUpdateIndex ==
    ret.op = "update_index" \/ (ret.op = "run" /\ ret.res = "ok")

\* C13: update_index is idempotent: on an unchanged directory a second call
\* leaves max_block and tx_index equal to their values after the first.
C13_UpdateIndexIdempotent ==
    AfterUpdateIndex =>
        /\ UpdateMaxBlock(disk, max_block) = max_block
        /\ UpdateTxIndex(disk, tx_index) = tx_index

C13_Witness ==
    /\ ret.op = "update_index"
    /\ IsSome(tx_index[Tx]) /\ Cardinality(DOMAIN Unwrap(tx_index[Tx])) >= 2
    /\ max_block[Tx] = Some(MaxBlock)

\* The files of a segment, as a scan of the directory lists them.
FilesOf(seg) == iter_snapshots(disk, seg)

\* The file with the largest block-range end.
HighestFile(seg) ==
    FilesOf(seg)[CHOOSE i \in DOMAIN FilesOf(seg) :
                    \A j \in DOMAIN FilesOf(seg) :
                        FilesOf(seg)[j].block_range[2] <= FilesOf(seg)[i].block_range[2]]

\* C14: after every successful update_index max_block[segment] is the largest
\* block-range end of the segment's files, and a segment without a file has
\* no max_block entry.
C14_MaxBlockIsHighestEnd ==
    AfterUpdateIndex =>
        \A seg \in Segments :
            IF FilesOf(seg) = <<>> THEN max_block[seg] = None
            ELSE max_block[seg] = Some(HighestFile(seg).block_range[2])

C14_Witness ==
    /\ ret.op = "update_index"
    /\ Len(FilesOf(Tx)) >= 2
    /\ FilesOf(Tx)[Len(FilesOf(Tx))].block_range[2] = BLOCKS_PER_SNAPSHOT
    /\ FilesOf(Hd) = <<>>

\* Every appended row was committed: no writer holds rows in its buffer.
Committed ==
    \A seg \in Segments : IsSome(writers[seg]) => Unwrap(writers[seg]).pending = <<>>

\* C15: after every successful commit + update_index the largest key of
\* tx_index[segment] is the tx-range end of the file with the largest
\* block-range end, and it maps to that file's block range.
C15_LastKeyIsHighestTx ==
    (AfterUpdateIndex /\ Committed) =>
        \A seg \in {"Transactions", "Receipts"} :
            FilesOf(seg) /= <<>> =>
                /\ IsSome(HighestFile(seg).tx_range)
                /\ get_highest_snapshot_tx(tx_index, seg)
                       = Some(Unwrap(HighestFile(seg).tx_range)[2])
                /\ Unwrap(tx_index[seg])[Unwrap(HighestFile(seg).tx_range)[2]]
                       = HighestFile(seg).block_range

\* The last file was extended by a later commit (the key of its earlier tx
\* end is still in the index) and an earlier file holds no transaction.
C15_Witness ==
    /\ AfterUpdateIndex /\ Committed
    /\ Len(FilesOf(Tx)) >= 2
    /\ ~IsSome(FilesOf(Tx)[1].tx_range)
    /\ Cardinality(DOMAIN Unwrap(tx_index[Tx])) >= 2

\* The headers of blocks lo..hi-1 in ascending order.
HeaderRows(lo, hi) == [i \in 1..(hi - lo) |-> [n |-> lo + i - 1, b |-> lo + i - 1]]

\* Every cached Headers jar holds the rows its file holds now.
FreshCache ==
    \A e \in Ends : IsSome(map[Hd][e]) =>
        Unwrap(map[Hd][e]).rows = FileRows(disk, Hd, FileOf(e))

Snapshotted(n) == IsSome(max_block[Hd]) /\ n <= Unwrap(max_block[Hd])

DescendingEnds(highest) ==
    [i \in 1..(FileOf(highest) + 1) |->
        find_fixed_range(highest)[2] - (i - 1) * BLOCKS_PER_SNAPSHOT]

\* C18: find_snapshot invokes func on the jars of the aligned ranges from the
\* one covering max_block[segment] down to [0, BLOCKS_PER_SNAPSHOT - 1] in
\* strictly descending order, each at most once; it returns the first hit
\* without visiting lower ranges, None after visiting all of them without a
\* hit, and opens no jar when the segment has no max_block entry.
C18_FindSnapshotDescends ==
    [][ret'.op = "header" =>
          LET visited == ret'.val.visited
              found == ret'.val.found
          IN  /\ ret'.res = "ok"
              /\ IF ~IsSome(max_block[Hd])
                 THEN visited = <<>> /\ found = None /\ map' = map
                 ELSE LET all == DescendingEnds(Unwrap(max_block[Hd]))
                      IN  /\ Len(visited) <= Len(all)
                          /\ visited = SubSeq(all, 1, Len(visited))
                          /\ \A i \in 1..Len(visited) :
                                IsSome(JarGet(Unwrap(map'[Hd][visited[i]]), ret'.arg))
                                    <=> (i = Len(visited) /\ IsSome(found))
                          /\ IsSome(found) =>
                                found = JarGet(Unwrap(map'[Hd][Last(visited)]), ret'.arg)
                          /\ ~IsSome(found) => visited = all]_vars

C18_Witness ==
    /\ ret.op = "header"
    /\ ret.val.visited = <<2 * BLOCKS_PER_SNAPSHOT - 1, BLOCKS_PER_SNAPSHOT - 1>>
    /\ ret.val.found = Some([n |-> 0, b |-> 0])

\* C19: header_by_number(n) for a block n above the highest snapshotted
\* Headers block, or when no Headers file is indexed, returns the error
\* MissingSnapshotBlock(Headers, n).
C19_MissingBlock ==
    (ret.op = "header_by_number" /\ ~Snapshotted(ret.arg))
        => ret.res = "MissingSnapshotBlock" /\ ret.seg = Hd /\ ret.val = <<>>

\* The header asked for is on disk already, but above the indexed maximum.
C19_Witness ==
    /\ ret.op = "header_by_number" /\ ret.res = "MissingSnapshotBlock"
    /\ max_block[Hd] = Some(BLOCKS_PER_SNAPSHOT - 1)
    /\ ret.arg = BLOCKS_PER_SNAPSHOT
    /\ FileRows(disk, Hd, 1) /= <<>>

RanOk(field) == ret.op = "run" /\ ret.res = "ok" /\ IsSome(ret.arg[field])

\* C21: after a successful run whose transactions target is lo..=hi,
\* get_highest_snapshot_block(Transactions) is hi and transaction_by_id of
\* the last appended tx number returns that transaction.  Stated for targets
\* whose blocks all hold transactions.
C21_RunThenRead ==
    (/\ RanOk("transactions")
     /\ \A b \in Unwrap(ret.arg.transactions)[1]..Unwrap(ret.arg.transactions)[2] : db[b] > 0) =>
        LET lo == Unwrap(ret.arg.transactions)[1]
            hi == Unwrap(ret.arg.transactions)[2]
            last == FirstTx(db, hi + 1) - 1
            read == transaction_by_id(disk, map, tx_index, last)
        IN  /\ get_highest_snapshot_block(max_block, Tx) = Some(hi)
            /\ last >= FirstTx(db, lo) =>
                  /\ read.res = "ok"
                  /\ read.val = Some([n |-> last, b |-> BlockOfTx(last)])

\* C22: after a successful run whose headers target is lo..=hi the highest
\* snapshot reported for Headers is Some(hi).
C22_RunPromotesHeaders ==
    RanOk("headers") =>
        get_highest_snapshots(max_block)["Headers"] = Some(Unwrap(ret.arg.headers)[2])

\* C23: when run returns an error at any point (database read, writer
\* creation, append, or commit), max_block and tx_index are exactly what they
\* were before the call.
C23_ErrorLeavesIndex ==
    [][(ret'.op = "run" /\ ret'.res = "err")
          => (max_block' = max_block /\ tx_index' = tx_index)]_vars

\* The failed run left a file in the directory that the index does not know.
C23_Witness ==
    /\ ret.op = "run" /\ ret.res = "err"
    /\ IsSome(max_block[Tx])
    /\ DiskMax(disk, Tx) /= max_block[Tx]
    /\ Unwrap(writers[Tx]).pending /= <<>>


\* The rows of the segment's files, as a set.
RowSet(dk, seg) == {DiskRows(dk, seg)[i] : i \in DOMAIN DiskRows(dk, seg)}

\* C24: rows appended through a writer handle that expired without commit (a
\* run that failed after some append_transaction calls) are discarded: a later
\* commit, called while no handle is live, adds no row to the files, and a
\* later successful run adds only rows of the blocks of its own target.
C24_ExpiredRowsDiscarded ==
    [][/\ ret'.op = "commit" => RowSet(disk', Tx) = RowSet(disk, Tx)
       /\ (ret'.op = "run" /\ ret'.res = "ok" /\ IsSome(ret'.arg.transactions)) =>
             \A row \in RowSet(disk', Tx) \ RowSet(disk, Tx) :
                 /\ row.b >= Unwrap(ret'.arg.transactions)[1]
                 /\ row.b <= Unwrap(ret'.arg.transactions)[2]]_vars


\* C28: the targets get_snapshot_targets returns satisfy
\* is_contiguous_to_highest_snapshots for the highest snapshots they were
\* computed from, whatever the finalized block and the highest snapshots are.
C28_TargetsAreContiguous ==
    ret.op = "get_snapshot_targets"
        => is_contiguous_to_highest_snapshots(ret.val, get_highest_snapshots(max_block))


\* C29: every fetch_range call terminates, with a vector or an error: after
\* get_fn returned None for a number, the provider resolved again for that
\* number either fails or holds the number, so the inner loop never repeats
\* forever (also when the resolved jar is a cached one).
C29_FetchRangeTerminates ==
    ret.op \in {"headers_range", "sealed_headers_while"} => ret.res /= "hang"


C30_NoSelfWait ==
    \A t \in Threads :
        (calls[t].pc = "insert" /\ IsSome(calls[t].held)) =>
            ~SameShard(calls[t].seg, calls[t].range[2],
                       Unwrap(calls[t].held)[1], Unwrap(calls[t].held)[2])


\* C25: under any interleaving of concurrent writer / latest_writer calls at
\* most one SnapshotProviderRW is constructed and active for a segment: a
\* writer held in the table is never replaced, a writer is constructed only
\* while the table has none, and no two callers each hold one they built.
C25_OneWriter ==
    [][\A seg \in Segments :
          /\ IsSome(writers[seg]) => writers'[seg] = writers[seg]
          /\ \A t \in Threads :
                Constructed(calls'[t], seg) =>
                    /\ writers'[seg] = None
                    /\ \A u \in Threads \ {t} : ~Constructed(calls'[u], seg)]_vars

\* C26: no operation performs I/O while it holds a write lock on max_block
\* or tx_index: a thread about to scan the snapshot directory in update_index
\* holds neither lock.
C26_NoIoUnderWriteLock ==
    \A t \in Threads : calls[t].pc = "update_scan" => ~HoldsIndexLocks(calls[t])


\* The run that returns went past the contiguity check with a transactions
\* target.
RanTransactions(r) == r.op = "run" /\ r.res \in {"ok", "err"} /\ IsSome(r.arg.transactions)

\* C31: writer(block, segment) creates a writer starting at block only when
\* the table has no entry for the segment; an existing entry is returned as it
\* is, whatever the block, and no operation, commit included, removes an entry:
\* a later run appends through the writer an earlier run created, so the rows
\* that writer holds are still in it, or in the files, afterwards.
C31_WriterKept ==
    [][/\ \A seg \in Segments : IsSome(writers[seg]) => IsSome(writers'[seg])
       /\ RanTransactions(ret') =>
             LET lo == Unwrap(ret'.arg.transactions)[1]
                 w2 == Unwrap(writers'[Tx])
             IN  /\ IsSome(writers'[Tx])
                 /\ IF IsSome(writers[Tx])
                    THEN LET w == Unwrap(writers[Tx])
                         IN  /\ w2.cur >= w.cur
                             /\ \A i \in DOMAIN w.pending :
                                   \/ w.pending[i] \in RowSet(disk', Tx)
                                   \/ \E j \in DOMAIN w2.pending : w2.pending[j] = w.pending[i]
                    ELSE /\ w2.cur >= FileOf(lo)
                         /\ \A j \in DOMAIN w2.pending : w2.pending[j].b >= lo]_vars

\* A run that failed after appending through the writer an earlier run left
\* in the table: the buffer holds rows of blocks below its own target too.
C31_Witness ==
    /\ RanTransactions(ret) /\ ret.res = "err"
    /\ IsSome(writers[Tx])
    /\ \E i, j \in DOMAIN Unwrap(writers[Tx]).pending :
          /\ Unwrap(writers[Tx]).pending[i].b < Unwrap(ret.arg.transactions)[1]
          /\ Unwrap(writers[Tx]).pending[j].b >= Unwrap(ret.arg.transactions)[1]


\* Block n has a header row in the files of the directory.
OnDisk(n) == RowOf(DiskRows(disk, Hd), n) /= {}

====
